---- MODULE Spec2Model ----
(***************************************************************************)
(* Validation engine of json-schema-rs: a JSON value is walked against a   *)
(* schema tree and every violation is pushed into an error sink.           *)
(*                                                                         *)
(* The recursion of validate_inner is modelled with an explicit stack of   *)
(* frames per validation call: a frame is one pending call of a validator  *)
(* function, and one action executes the head frame.                       *)
(***************************************************************************)
EXTENDS Integers, Sequences, FiniteSets, TLC

VARIABLES
    schema,  \* the schema every call validates against (immutable)
    doc,     \* doc[c]: the JSON value passed to call c
    ctx,     \* ctx[c]: the Context of call c, None outside of a call
    stack,   \* stack[c]: the pending validator calls of call c, innermost first
    errors,  \* errors[c]: the error sink of call c
    result,  \* result[c]: what call c returned
    pc       \* pc[c]: idle, ready, running, done or panicked

vars == <<schema, doc, ctx, stack, errors, result, pc>>

(***************************************************************************)
(* Bounds of the explored inputs.                                          *)
(***************************************************************************)
\* numbers are exact multiples of 1/Den
Den == 2
\* document numbers range over -MaxNum/Den .. MaxNum/Den
MaxNum == 3
\* strings have at most MaxStrLen characters
MaxStrLen == 2
\* arrays have at most MaxArrLen elements
MaxArrLen == 3
\* minLength / maxLength / minItems / maxItems range over 0..MaxLenBound
MaxLenBound == 3

\* the validation calls; "B" only runs in the concurrent specification
Calls == {"A", "B"}

(***************************************************************************)
(* Option<T>                                                               *)
(***************************************************************************)
None == [some |-> FALSE]
Some(x) == [some |-> TRUE, v |-> x]
Opt(S) == {None} \cup {Some(x) : x \in S}
unwrap_or(o, d) == IF o.some THEN o.v ELSE d

(***************************************************************************)
(* serde_json::Value.  A number n stands for n/Den; a string is a sequence *)
(* of characters; a node of the document is named by its path from the     *)
(* document root.                                                          *)
(***************************************************************************)
JNull == [t |-> "Null"]
JBool(b) == [t |-> "Bool", b |-> b]
JNum(n) == [t |-> "Number", n |-> n]
JStr(s) == [t |-> "String", s |-> s]
JArr(a) == [t |-> "Array", a |-> a]
\* an object is its (key, value) entries in the iteration order of the map;
\* a key is a string, that is a sequence of characters
JObj(o) == [t |-> "Object", o |-> o]
Entry(k, v) == [k |-> k, v |-> v]

\* the steps of a path: an array index (from 1) or an object key
Idx(i) == [i |-> i]
Key(k) == [k |-> k]

\* Map::get
get(o, k) ==
    IF \E j \in 1..Len(o) : o[j].k = k
    THEN Some(o[CHOOSE j \in 1..Len(o) : o[j].k = k].v)
    ELSE None

RECURSIVE ValueAt(_, _)
ValueAt(v, path) ==
    IF path = <<>> THEN v
    ELSE IF v.t = "Array"
         THEN ValueAt(v.a[Head(path).i], Tail(path))
         ELSE ValueAt(get(v.o, Head(path).k).v, Tail(path))

\* Value::as_f64 of a number: the numeric payload (exact at these magnitudes)
as_f64(v) == v.n

\* f64::trunc: rounds toward zero
trunc(n) == IF n >= 0 THEN (n \div Den) * Den ELSE -(((-n) \div Den) * Den)

\* the characters of the explored strings and their UTF-8 widths
Chars == {"a", "U00E9"}
Utf8Width(ch) == IF ch = "U00E9" THEN 2 ELSE 1

RECURSIVE str_len(_)
\* str::len: the length of a string in bytes
str_len(s) == IF s = <<>> THEN 0 ELSE Utf8Width(Head(s)) + str_len(Tail(s))

(***************************************************************************)
(* util.rs: JsonType and the value classifier                              *)
(***************************************************************************)
JsonType == {"Null", "Boolean", "Object", "Array", "Number", "String", "Integer"}

get_type_AlwaysNumber(v) ==
    CASE v.t = "Bool" -> "Boolean"
      [] v.t = "Array" -> "Array"
      [] v.t = "Null" -> "Null"
      [] v.t = "String" -> "String"
      [] v.t = "Object" -> "Object"
      [] v.t = "Number" -> "Number"

get_type(v) ==
    CASE v.t = "Bool" -> "Boolean"
      [] v.t = "Array" -> "Array"
      [] v.t = "Null" -> "Null"
      [] v.t = "String" -> "String"
      [] v.t = "Object" -> "Object"
      [] v.t = "Number" -> IF trunc(as_f64(v)) = as_f64(v) THEN "Integer" ELSE "Number"

(***************************************************************************)
(* errors.rs: ErrorKind and ValidationError.  A reason is its variant name  *)
(* (kind) and, in the field of that name, the payload of the variant.      *)
(***************************************************************************)
TypeMismatch(expected, found) ==
    [kind |-> "TypeMismatch",
     TypeMismatch |-> [expected |-> expected, found |-> found]]
TupleLengthMismatch(schemas, tuple) ==
    [kind |-> "TupleLengthMismatch",
     TupleLengthMismatch |-> [schemas |-> schemas, tuple |-> tuple]]
MaxLength(expected, found) ==
    [kind |-> "MaxLength", MaxLength |-> [expected |-> expected, found |-> found]]
MinLength_Swapped(expected, found) ==
    [kind |-> "MinLength", MinLength |-> [expected |-> found, found |-> expected]]
MinLength(expected, found) ==
    [kind |-> "MinLength", MinLength |-> [expected |-> expected, found |-> found]]
MissingProperty(prop) == [kind |-> "MissingProperty", MissingProperty |-> prop]
ArrayItemNotUnique == [kind |-> "ArrayItemNotUnique"]
NumberRange(bound, value) ==
    [kind |-> "NumberRange", NumberRange |-> [bound |-> bound, value |-> value]]
PropertyCount(bound, found) ==
    [kind |-> "PropertyCount", PropertyCount |-> [bound |-> bound, found |-> found]]
InvalidRegex(regex) == [kind |-> "InvalidRegex", InvalidRegex |-> regex]
InvalidFormat(format) == [kind |-> "InvalidFormat", InvalidFormat |-> format]
RegexMismatch(regex) == [kind |-> "RegexMismatch", RegexMismatch |-> regex]

ValidationError(reason, node) == [reason |-> reason, node |-> node]

type_mismatch_Swapped(node, expected, found) ==
    ValidationError(TypeMismatch(found, expected), node)

type_mismatch(node, expected, found) ==
    ValidationError(TypeMismatch(expected, found), node)

\* Vec::push
push(errs, e) == Append(errs, e)

(***************************************************************************)
(* The schema kinds                                                        *)
(***************************************************************************)
EmptySchema == [kind |-> "Empty"]
BooleanSchema == [kind |-> "Boolean"]
ReferenceSchema(reference) == [kind |-> "Reference", reference |-> reference]
IntegerSchema(multiple_of, minimum, maximum, exclusive_minimum, exclusive_maximum) ==
    [kind |-> "Integer", multiple_of |-> multiple_of,
     minimum |-> minimum, maximum |-> maximum,
     exclusive_minimum |-> exclusive_minimum,
     exclusive_maximum |-> exclusive_maximum]
NumberSchema(multiple_of, minimum, maximum, exclusive_minimum, exclusive_maximum) ==
    [kind |-> "Number", multiple_of |-> multiple_of,
     minimum |-> minimum, maximum |-> maximum,
     exclusive_minimum |-> exclusive_minimum,
     exclusive_maximum |-> exclusive_maximum]
StringSchema(min_length, max_length, pattern, format) ==
    [kind |-> "String", min_length |-> min_length, max_length |-> max_length,
     pattern |-> pattern, format |-> format]
ArraySchema(min_items, max_items, unique_items, all_items_schema, item_schemas, additional_items) ==
    [kind |-> "Array", min_items |-> min_items, max_items |-> max_items,
     unique_items |-> unique_items, all_items_schema |-> all_items_schema,
     item_schemas |-> item_schemas, additional_items |-> additional_items]
\* property_schemas and pattern_properties are HashMaps: a sequence of
\* (key, schema) entries in the iteration order of the map
ObjectSchema(property_schemas, additional_properties, required, min_properties, max_properties, pattern_properties) ==
    [kind |-> "Object", property_schemas |-> property_schemas,
     additional_properties |-> additional_properties, required |-> required,
     min_properties |-> min_properties, max_properties |-> max_properties,
     pattern_properties |-> pattern_properties]

(***************************************************************************)
(* string.rs: Format::is_valid and the regex collaborator.  The explored   *)
(* strings hold letters only, so none of them parses as an RFC 3339 date,  *)
(* an absolute URL or an IP address.  A pattern is a single literal        *)
(* character (matched anywhere in the input) or the uncompilable "(".      *)
(***************************************************************************)
Formats == {"DateTime", "Email", "Hostname", "Ipv4", "Ipv6", "Uri"}

is_valid(format, input) ==
    CASE format = "DateTime" -> FALSE
      [] format = "Uri" -> FALSE
      [] format = "Ipv4" -> FALSE
      [] format = "Ipv6" -> FALSE
      [] OTHER -> TRUE

\* Regex::new(re).is_ok()
regex_compiles(re) == re # "("
\* Regex::is_match
is_match(re, input) == \E i \in 1..Len(input) : input[i] = re
\* the Display of the error Regex::new returns
regex_error(re) == CASE re = "(" -> "regex parse error: unclosed group"

(***************************************************************************)
(* The per-kind validators.  Each operator takes the error sink and        *)
(* returns the sink after the function has run.                            *)
(***************************************************************************)

\* EmptySchema::validate_inner
EmptySchema_validate_inner_Pushes(self, value, node, errs) ==
    push(errs, type_mismatch(node, "Null", get_type(value)))

EmptySchema_validate_inner(self, value, node, errs) == errs

\* BooleanSchema::validate_inner
BooleanSchema_validate_inner(self, value, node, errs) ==
    IF value.t # "Bool"
    THEN push(errs, ValidationError(TypeMismatch("Boolean", get_type(value)), node))
    ELSE errs

\* IntegerSchema::validate_inner
IntegerSchema_validate_inner_Range(self, value, node, errs) ==
    IF get_type(value) = "Integer"
    THEN IF self.minimum.some /\ as_f64(value) < self.minimum.v
         THEN push(errs, ValidationError(NumberRange(self.minimum.v, as_f64(value)), node))
         ELSE errs
    ELSE push(errs, ValidationError(TypeMismatch("Integer", get_type(value)), node))

IntegerSchema_validate_inner(self, value, node, errs) ==
    IF get_type(value) = "Integer"
    THEN errs
    ELSE push(errs, ValidationError(TypeMismatch("Integer", get_type(value)), node))

\* NumberSchema::exclusive_maximum / exclusive_minimum
exclusive_maximum(self) == unwrap_or(self.exclusive_maximum, FALSE)
exclusive_minimum(self) == unwrap_or(self.exclusive_minimum, FALSE)

\* NumberSchema::validate_range
validate_range(self, node, value, errs) ==
    LET bound0 == None
        min_out_of_bounds ==
            IF exclusive_minimum(self) THEN value < self.minimum.v
                                       ELSE value <= self.minimum.v
        bound1 == IF self.minimum.some /\ min_out_of_bounds
                  THEN Some(self.minimum.v) ELSE bound0
        max_out_of_bounds ==
            IF exclusive_maximum(self) THEN value > self.maximum.v
                                       ELSE value >= self.maximum.v
        bound2 == IF self.maximum.some /\ max_out_of_bounds
                  THEN Some(self.maximum.v) ELSE bound1
    IN  IF bound2.some
        THEN push(errs, ValidationError(NumberRange(bound2.v, value), node))
        ELSE errs

\* NumberSchema::validate_inner
NumberSchema_validate_inner(self, value, node, errs) ==
    IF value.t = "Number"
    THEN validate_range(self, node, as_f64(value), errs)
    ELSE push(errs, ValidationError(TypeMismatch("Number", get_type(value)), node))

\* StringSchema::validate_string
validate_string_NoMax(self, value, node, errs) ==
    LET e1 == IF self.format.some /\ ~is_valid(self.format.v, value)
              THEN push(errs, ValidationError(InvalidFormat(self.format.v), node))
              ELSE errs
        e2 == IF self.min_length.some /\ str_len(value) < self.min_length.v
              THEN push(e1, ValidationError(
                       MinLength(self.min_length.v, str_len(value)), node))
              ELSE e1
    IN  e2

validate_string(self, value, node, errs) ==
    LET e1 == IF self.format.some /\ ~is_valid(self.format.v, value)
              THEN push(errs, ValidationError(InvalidFormat(self.format.v), node))
              ELSE errs
        e2 == IF self.min_length.some /\ str_len(value) < self.min_length.v
              THEN push(e1, ValidationError(
                       MinLength(self.min_length.v, str_len(value)), node))
              ELSE e1
        e3 == IF self.max_length.some /\ str_len(value) > self.max_length.v
              THEN push(e2, ValidationError(
                       MinLength(self.max_length.v, str_len(value)), node))
              ELSE e2
        e4 == IF self.pattern.some
              THEN IF regex_compiles(self.pattern.v)
                   THEN IF ~is_match(self.pattern.v, value)
                        THEN push(e3, ValidationError(
                                 RegexMismatch(self.pattern.v), node))
                        ELSE e3
                   ELSE push(e3, ValidationError(InvalidRegex(self.pattern.v), node))
              ELSE e3
    IN  e4

StringSchema_validate_inner_FirstOnly(self, value, node, errs) ==
    IF value.t = "String"
    THEN LET e == validate_string(self, value.s, node, errs)
         IN  IF Len(e) > Len(errs) THEN SubSeq(e, 1, Len(errs) + 1) ELSE e
    ELSE push(errs, type_mismatch(node, "String", get_type(value)))

\* StringSchema::validate_inner
StringSchema_validate_inner(self, value, node, errs) ==
    IF value.t = "String"
    THEN validate_string(self, value.s, node, errs)
    ELSE push(errs, type_mismatch(node, "String", get_type(value)))

(***************************************************************************)
(* array.rs                                                                *)
(***************************************************************************)
\* ArraySchema::additional_items / unique_items
additional_items(self) == unwrap_or(self.additional_items, FALSE)
unique_items(self) == unwrap_or(self.unique_items, FALSE)

\* ArraySchema::validate_size
validate_size_InsertFront(self, array, parent, errs) ==
    LET e1 == IF self.min_items.some /\ Len(array) < self.min_items.v
              THEN <<ValidationError(
                       MinLength(self.min_items.v, Len(array)), parent)>> \o errs
              ELSE errs
        e2 == IF self.max_items.some /\ Len(array) > self.max_items.v
              THEN <<ValidationError(
                       MaxLength(self.max_items.v, Len(array)), parent)>> \o e1
              ELSE e1
    IN  e2

validate_size(self, array, parent, errs) ==
    LET e1 == IF self.min_items.some /\ Len(array) < self.min_items.v
              THEN push(errs, ValidationError(
                       MinLength(self.min_items.v, Len(array)), parent))
              ELSE errs
        e2 == IF self.max_items.some /\ Len(array) > self.max_items.v
              THEN push(e1, ValidationError(
                       MaxLength(self.max_items.v, Len(array)), parent))
              ELSE e1
    IN  e2

Min(a, b) == IF a < b THEN a ELSE b

validate_all_items_schema_StopAtFirst(self, array, parent) ==
    IF self.all_items_schema.some
    THEN [i \in 1..Min(1, Len(array)) |->
             [op |-> "validate_inner", schema |-> self.all_items_schema.v,
              node |-> Append(parent, Idx(i))]]
    ELSE <<>>

\* the calls of schema.validate_inner made by validate_all_items_schema,
\* in the order of the loop
validate_all_items_schema(self, array, parent) ==
    IF self.all_items_schema.some
    THEN [i \in 1..Len(array) |->
             [op |-> "validate_inner", schema |-> self.all_items_schema.v,
              node |-> Append(parent, Idx(i))]]
    ELSE <<>>

validate_item_schema_push_Swapped(self, array, parent, errs) ==
    IF self.item_schemas.some
       /\ Len(self.item_schemas.v) # Len(array) /\ ~additional_items(self)
    THEN push(errs, ValidationError(
             TupleLengthMismatch(Len(array), Len(self.item_schemas.v)), parent))
    ELSE errs

\* ArraySchema::validate_item_schema: the error pushed before the loop
validate_item_schema_push(self, array, parent, errs) ==
    IF self.item_schemas.some
       /\ Len(self.item_schemas.v) # Len(array) /\ ~additional_items(self)
    THEN push(errs, ValidationError(
             TupleLengthMismatch(Len(self.item_schemas.v), Len(array)), parent))
    ELSE errs

validate_item_schema_calls_LastForRest(self, array, parent) ==
    IF self.item_schemas.some /\ Len(self.item_schemas.v) > 0
    THEN [i \in 1..Len(array) |->
             [op |-> "validate_inner",
              schema |-> self.item_schemas.v[Min(i, Len(self.item_schemas.v))],
              node |-> Append(parent, Idx(i))]]
    ELSE <<>>

\* ArraySchema::validate_item_schema: the calls made by the zip loop
validate_item_schema_calls(self, array, parent) ==
    IF self.item_schemas.some
    THEN [i \in 1..Min(Len(self.item_schemas.v), Len(array)) |->
             [op |-> "validate_inner", schema |-> self.item_schemas.v[i],
              node |-> Append(parent, Idx(i))]]
    ELSE <<>>

\* ArraySchema::validate_unique, one iteration of the outer loop on item i:
\* TRUE when some item of unique_items equals the item
contained_equal(array, seen, i) == \E k \in 1..Len(seen) : array[seen[k]] = array[i]

(***************************************************************************)
(* object.rs                                                               *)
(***************************************************************************)
\* ObjectSchema::additional_properties
additional_properties(self) == unwrap_or(self.additional_properties, FALSE)

validate_properties_AlwaysMissing(self, object, f, errs) ==
    IF ~self.property_schemas.some \/ f.j > Len(self.property_schemas.v)
    THEN [frames |-> <<>>, errors |-> errs]
    ELSE LET property == self.property_schemas.v[f.j].k
             s == self.property_schemas.v[f.j].v
             next == [f EXCEPT !.j = f.j + 1]
         IN  IF get(object, property).some
             THEN [frames |-> <<[op |-> "validate_inner", schema |-> s,
                                 node |-> Append(f.node, Key(property))], next>>,
                   errors |-> errs]
             ELSE [frames |-> <<next>>,
                   errors |-> push(errs, ValidationError(
                                  MissingProperty(property), f.node))]

\* ObjectSchema::validate_properties, one iteration of the loop over the
\* property schemas (or the return when there is none left)
validate_properties(self, object, f, errs) ==
    IF ~self.property_schemas.some \/ f.j > Len(self.property_schemas.v)
    THEN [frames |-> <<>>, errors |-> errs]
    ELSE LET property == self.property_schemas.v[f.j].k
             s == self.property_schemas.v[f.j].v
             next == [f EXCEPT !.j = f.j + 1]
         IN  IF get(object, property).some
             THEN [frames |-> <<[op |-> "validate_inner", schema |-> s,
                                 node |-> Append(f.node, Key(property))], next>>,
                   errors |-> errs]
             ELSE [frames |-> <<next>>,
                   errors |-> IF ~additional_properties(self)
                              THEN push(errs, ValidationError(
                                       MissingProperty(property), f.node))
                              ELSE errs]

RECURSIVE validate_required_loop(_, _, _, _, _)
validate_required_loop(required, k, object, parent, errs) ==
    IF k > Len(required) THEN errs
    ELSE validate_required_loop(required, k + 1, object, parent,
             IF ~get(object, required[k]).some
             THEN push(errs, ValidationError(MissingProperty(required[k]), parent))
             ELSE errs)

validate_required_NoLookup(self, object, parent, errs) ==
    IF self.required.some
    THEN validate_required_loop(self.required.v, 1, <<>>, parent, errs)
    ELSE errs

\* ObjectSchema::validate_required
validate_required(self, object, parent, errs) ==
    IF self.required.some
    THEN validate_required_loop(self.required.v, 1, object, parent, errs)
    ELSE errs

\* ObjectSchema::validate_count
validate_count(self, object, parent, errs) ==
    LET e1 == IF self.min_properties.some /\ Len(object) < self.min_properties.v
              THEN push(errs, ValidationError(
                       PropertyCount(self.min_properties.v, Len(object)), parent))
              ELSE errs
        e2 == IF self.max_properties.some /\ Len(object) > self.max_properties.v
              THEN push(e1, ValidationError(
                       PropertyCount(self.max_properties.v, Len(object)), parent))
              ELSE e1
    IN  e2

\* the calls of schema.validate_inner made for one compiled pattern: one for
\* every entry of the object whose key matches, in the order of the object
pattern_calls(re, s, object, parent) ==
    LET matching == SelectSeq(object, LAMBDA e : is_match(re, e.k))
    IN  [i \in 1..Len(matching) |->
            [op |-> "validate_inner", schema |-> s,
             node |-> Append(parent, Key(matching[i].k))]]

validate_pattern_properties_StopOnInvalid(self, object, f, errs) ==
    IF ~self.pattern_properties.some \/ f.j > Len(self.pattern_properties.v)
    THEN [frames |-> <<>>, errors |-> errs]
    ELSE LET pattern == self.pattern_properties.v[f.j].k
             s == self.pattern_properties.v[f.j].v
             next == [f EXCEPT !.j = f.j + 1]
         IN  IF regex_compiles(pattern)
             THEN [frames |-> pattern_calls(pattern, s, object, f.node) \o <<next>>,
                   errors |-> errs]
             ELSE [frames |-> <<>>,
                   errors |-> push(errs, ValidationError(
                                  InvalidRegex(regex_error(pattern)), f.node))]

\* ObjectSchema::validate_pattern_properties, one iteration of the loop over
\* the patterns (or the return when there is none left)
validate_pattern_properties(self, object, f, errs) ==
    IF ~self.pattern_properties.some \/ f.j > Len(self.pattern_properties.v)
    THEN [frames |-> <<>>, errors |-> errs]
    ELSE LET pattern == self.pattern_properties.v[f.j].k
             s == self.pattern_properties.v[f.j].v
             next == [f EXCEPT !.j = f.j + 1]
         IN  IF regex_compiles(pattern)
             THEN [frames |-> pattern_calls(pattern, s, object, f.node) \o <<next>>,
                   errors |-> errs]
             ELSE [frames |-> <<next>>,
                   errors |-> push(errs, ValidationError(
                                  InvalidRegex(regex_error(pattern)), f.node))]

(***************************************************************************)
(* The builders of array.rs and object.rs                                  *)
(***************************************************************************)
\* ArraySchemaBuilder::default and ArraySchemaBuilder::build
ArraySchemaBuilder_default ==
    [min_items |-> None, max_items |-> None, unique_items |-> FALSE,
     all_items_schema |-> None, item_schemas |-> None, additional_items |-> TRUE]

ArraySchemaBuilder_build(self) ==
    ArraySchema(self.min_items, self.max_items, Some(self.unique_items),
                self.all_items_schema, self.item_schemas,
                Some(self.additional_items))

\* ObjectSchemaBuilder::default and ObjectSchemaBuilder::build
ObjectSchemaBuilder_default ==
    [property_schemas |-> None, additional_properties |-> TRUE, required |-> None,
     min_properties |-> None, max_properties |-> None, pattern_properties |-> None]

ObjectSchemaBuilder_build(self) ==
    ObjectSchema(self.property_schemas, Some(self.additional_properties),
                 self.required, self.min_properties, self.max_properties,
                 self.pattern_properties)

(***************************************************************************)
(* Results                                                                 *)
(***************************************************************************)
Pending == [tag |-> "Pending"]
Ok == [tag |-> "Ok"]
Err(errs) == [tag |-> "Err", errors |-> errs]

Context(r) == [root |-> r]

\* SchemaBase::validate_start, after validate_inner has returned
validate_start_result_First(errs) == IF errs = <<>> THEN Ok ELSE Err(<<errs[1]>>)

validate_start_result(errs) == IF errs = <<>> THEN Ok ELSE Err(errs)

(***************************************************************************)
(* The explored schemas and documents                                      *)
(***************************************************************************)
NumDocs == {JNum(n) : n \in (-MaxNum)..MaxNum}
StrDocs == {JStr(s) : s \in UNION {[1..n -> Chars] : n \in 0..MaxStrLen}}
ElemVals == {JNum(0), JNum(1), JStr(<<"a">>)}
ArrDocs == {JArr(a) : a \in UNION {[1..n -> ElemVals] : n \in 0..MaxArrLen}}
\* the keys of the explored objects; serde_json keeps an object sorted by key
Ka == <<"a">>
Kb == <<"b">>
PropVals == {JNum(0), JNum(1), JArr(<<JStr(<<"a">>)>>)}
ObjDocs ==
    {JObj(<<>>)}
    \cup {JObj(<<Entry(k, v)>>) : k \in {Ka, Kb}, v \in PropVals}
    \cup {JObj(<<Entry(Ka, v), Entry(Kb, w)>>) : v \in PropVals, w \in PropVals}
NestedDocs ==
    {JArr(<<JObj(<<Entry(Ka, JArr(<<JNull, JBool(FALSE)>>))>>), JNum(1)>>),
     JArr(<<JObj(<<Entry(Kb, JNum(1))>>), JObj(<<Entry(Ka, JNum(1))>>)>>),
     JArr(<<JArr(<<JNum(0), JNum(0)>>), JArr(<<JNum(0)>>), JArr(<<JNum(0)>>)>>)}
MismatchDocs == {JNull, JBool(TRUE), JNum(0), JNum(1), JStr(<<"a">>),
                 JArr(<<>>), JArr(<<JNum(0)>>), JObj(<<Entry(Ka, JNum(0))>>)}
Docs == {JNull, JBool(TRUE), JBool(FALSE)} \cup NumDocs \cup StrDocs \cup ArrDocs
        \cup ObjDocs \cup NestedDocs

NumBounds == {0, Den}
IntegerSchemas ==
    {IntegerSchema(m, mn, mx, exmn, exmx) :
        m \in Opt({2 * Den}), mn \in Opt({Den}), mx \in Opt({0}),
        exmn \in Opt({TRUE}), exmx \in Opt({TRUE})}
NumberSchemas ==
    {NumberSchema(None, mn, mx, exmn, exmx) :
        mn \in Opt(NumBounds), mx \in Opt(NumBounds),
        exmn \in Opt(BOOLEAN), exmx \in Opt(BOOLEAN)}
StringSchemas ==
    {StringSchema(mn, mx, None, None) :
        mn \in Opt(0..MaxLenBound), mx \in Opt(0..MaxLenBound)}
    \cup
    {StringSchema(mn, mx, p, f) :
        mn \in Opt({1, MaxLenBound}), mx \in Opt({1, MaxLenBound}),
        p \in Opt({"a", "("}), f \in Opt({"Ipv4", "Email"})}

PlainInteger == IntegerSchema(None, None, None, None, None)
UnitNumber == NumberSchema(None, Some(0), Some(Den), None, None)
LongString == StringSchema(Some(2), None, None, None)
UniqueArray == ArraySchema(None, Some(0), Some(TRUE), None, None, None)
StringList == ArraySchema(None, None, None, Some(LongString), None, None)
RequiresA == ObjectSchema(Some(<<Entry(Ka, PlainInteger)>>), None, Some(<<Ka>>),
                          None, None, None)
ItemSchemas == {EmptySchema, PlainInteger, UnitNumber, LongString, UniqueArray,
                RequiresA}
TupleSchemas == {PlainInteger, LongString}
\* tuple mode has at most MaxTuple positional schemas
MaxTuple == 2
ArraySchemas ==
    {ArraySchema(mn, mx, None, None, None, None) :
        mn \in Opt(0..MaxLenBound), mx \in Opt(0..MaxLenBound)}
    \cup
    {ArraySchema(None, None, u, None, None, None) : u \in Opt(BOOLEAN)}
    \cup
    {ArraySchema(None, None, u, Some(s), None, None) :
        u \in Opt({TRUE}), s \in ItemSchemas}
    \cup
    {ArraySchema(None, None, None, None, Some(ss), add) :
        ss \in UNION {[1..n -> TupleSchemas] : n \in 0..MaxTuple},
        add \in Opt(BOOLEAN)}
    \cup
    {ArraySchema(None, None, None, Some(UnitNumber), Some(<<UnitNumber, PlainInteger>>),
                 add) : add \in Opt(BOOLEAN)}
    \cup
    {ArraySchema(Some(MaxLenBound), Some(1), Some(TRUE), Some(PlainInteger),
                 Some(<<LongString, UnitNumber>>), add) : add \in Opt(BOOLEAN)}

PropSchemas == {PlainInteger, StringList}
\* the property maps, in every iteration order
PropMaps ==
    {<<>>}
    \cup {<<Entry(k, s)>> : k \in {Ka, Kb}, s \in PropSchemas}
    \cup {<<Entry(k[1], s), Entry(k[2], t)>> :
            k \in {<<Ka, Kb>>, <<Kb, Ka>>}, s \in PropSchemas, t \in PropSchemas}
RequiredLists == {<<>>, <<Ka>>, <<Kb>>, <<Ka, Kb>>, <<Kb, Ka>>, <<Kb, Kb>>}
PatternMaps ==
    {<<>>}
    \cup {<<Entry(p, s)>> : p \in {"a", "b", "("}, s \in PropSchemas}
    \cup {<<Entry(p, PlainInteger), Entry(q, StringList)>> :
            p \in {"a", "b", "("}, q \in {"a", "b", "("}}
\* minProperties / maxProperties range over 0..MaxProps
MaxProps == 2
ObjectSchemas ==
    {ObjectSchema(None, add, req, None, None, None) :
        add \in Opt(BOOLEAN), req \in Opt(RequiredLists)}
    \cup
    {ObjectSchema(Some(pm), add, req, None, None, None) :
        pm \in PropMaps, add \in Opt(BOOLEAN), req \in Opt({<<Ka>>})}
    \cup
    {ObjectSchema(None, None, None, mn, mx, None) :
        mn \in Opt(0..MaxProps), mx \in Opt(0..MaxProps)}
    \cup
    {ObjectSchema(None, None, None, None, None, Some(pp)) : pp \in PatternMaps}
    \cup
    {ObjectSchema(Some(<<Entry(Kb, PlainInteger)>>), add, Some(<<Kb, Ka>>),
                  Some(MaxProps), Some(0),
                  Some(<<Entry("(", PlainInteger), Entry("a", StringList)>>)) :
        add \in Opt(BOOLEAN)}

\* schemas made with the builders: additionalItems / additionalProperties and
\* uniqueItems are left at the builder's defaults or set explicitly
BuiltArraySchemas ==
    {ArraySchemaBuilder_build([ArraySchemaBuilder_default EXCEPT
                                  !.item_schemas = Some(ss)]) :
        ss \in UNION {[1..n -> TupleSchemas] : n \in 0..MaxTuple}}
    \cup
    {ArraySchemaBuilder_build([ArraySchemaBuilder_default EXCEPT
                                  !.all_items_schema = ai, !.unique_items = u,
                                  !.additional_items = add]) :
        ai \in Opt({UnitNumber}), u \in BOOLEAN, add \in BOOLEAN}
BuiltObjectSchemas ==
    {ObjectSchemaBuilder_build([ObjectSchemaBuilder_default EXCEPT
                                   !.property_schemas = Some(pm),
                                   !.required = req]) :
        pm \in PropMaps, req \in Opt({<<Ka>>})}

\* references: a pointer to a path the root does not have, an external
\* reference, and a pointer to the first positional schema of the root
DanglingReference == ReferenceSchema("#/definitions/a")
ExternalReference == ReferenceSchema("http://example.com/a.json")
ItemReference == ReferenceSchema("#/itemSchemas/0")
ReferringTuples ==
    {ArraySchema(None, None, None, None, Some(<<s, ItemReference>>), None) :
        s \in TupleSchemas}

Inputs ==
    ({EmptySchema, BooleanSchema, DanglingReference} \X Docs)
    \cup ({ExternalReference} \X MismatchDocs)
    \cup (ReferringTuples \X ArrDocs)
    \cup (BuiltArraySchemas \X (ArrDocs \cup MismatchDocs))
    \cup (BuiltObjectSchemas \X (ObjDocs \cup MismatchDocs))
    \cup (ObjectSchemas \X (ObjDocs \cup MismatchDocs))
    \cup (IntegerSchemas \X (NumDocs \cup MismatchDocs))
    \cup (NumberSchemas \X (NumDocs \cup MismatchDocs))
    \cup (StringSchemas \X (StrDocs \cup MismatchDocs))
    \cup (ArraySchemas \X (ArrDocs \cup NestedDocs \cup MismatchDocs))

(***************************************************************************)
(* The state machine                                                       *)
(***************************************************************************)
Init ==
    \E in \in Inputs :
        /\ schema = in[1]
        /\ doc = [c \in Calls |-> IF c = "A" THEN in[2] ELSE JNull]
        /\ ctx = [c \in Calls |-> None]
        /\ stack = [c \in Calls |-> <<>>]
        /\ errors = [c \in Calls |-> <<>>]
        /\ result = [c \in Calls |-> Pending]
        /\ pc = [c \in Calls |-> IF c = "A" THEN "ready" ELSE "idle"]

Top(c) == Head(stack[c])
\* the value the head frame is about
TopValue(c) == ValueAt(doc[c], Top(c).node)

\* Schema::validate_inner: the match on the schema kind
Dispatches(c, kind) ==
    /\ pc[c] = "running"
    /\ stack[c] # <<>>
    /\ Top(c).op = "validate_inner"
    /\ Top(c).schema.kind = kind

InFrame(c, op) ==
    /\ pc[c] = "running"
    /\ stack[c] # <<>>
    /\ Top(c).op = op

Return_SharedSink(c, frames, errs) ==
    /\ stack' = [stack EXCEPT ![c] = frames \o Tail(stack[c])]
    /\ errors' = [d \in Calls |-> errs]
    /\ UNCHANGED <<schema, doc, ctx, result, pc>>

\* the head frame returns after making the calls in frames, leaving sink errs
Return(c, frames, errs) ==
    /\ stack' = [stack EXCEPT ![c] = frames \o Tail(stack[c])]
    /\ errors' = [errors EXCEPT ![c] = errs]
    /\ UNCHANGED <<schema, doc, ctx, result, pc>>

ValidateStart_Stale(c) ==
    /\ pc[c] = "ready"
    /\ errors' = [errors EXCEPT ![c] = errors[CHOOSE d \in Calls : d # c]]
    /\ ctx' = [ctx EXCEPT ![c] = Some(Context(schema))]
    /\ stack' = [stack EXCEPT ![c] =
                    <<[op |-> "validate_inner", schema |-> schema, node |-> <<>>]>>]
    /\ pc' = [pc EXCEPT ![c] = "running"]
    /\ UNCHANGED <<schema, doc, result>>

\* Schema::validate and validate_start up to the call of validate_inner
ValidateStart(c) ==
    /\ pc[c] = "ready"
    /\ errors' = [errors EXCEPT ![c] = <<>>]
    /\ ctx' = [ctx EXCEPT ![c] = Some(Context(schema))]
    /\ stack' = [stack EXCEPT ![c] =
                    <<[op |-> "validate_inner", schema |-> schema, node |-> <<>>]>>]
    /\ pc' = [pc EXCEPT ![c] = "running"]
    /\ UNCHANGED <<schema, doc, result>>

\* validate_start once validate_inner has returned
ValidateReturn(c) ==
    /\ pc[c] = "running"
    /\ stack[c] = <<>>
    /\ result' = [result EXCEPT ![c] = validate_start_result(errors[c])]
    /\ ctx' = [ctx EXCEPT ![c] = None]
    /\ pc' = [pc EXCEPT ![c] = "done"]
    /\ UNCHANGED <<schema, doc, stack, errors>>

EmptyValidateInner(c) ==
    /\ Dispatches(c, "Empty")
    /\ Return(c, <<>>, EmptySchema_validate_inner(Top(c).schema, TopValue(c),
                                                  Top(c).node, errors[c]))

BooleanValidateInner(c) ==
    /\ Dispatches(c, "Boolean")
    /\ Return(c, <<>>, BooleanSchema_validate_inner(Top(c).schema, TopValue(c),
                                                    Top(c).node, errors[c]))

IntegerValidateInner(c) ==
    /\ Dispatches(c, "Integer")
    /\ Return(c, <<>>, IntegerSchema_validate_inner(Top(c).schema, TopValue(c),
                                                    Top(c).node, errors[c]))

NumberValidateInner(c) ==
    /\ Dispatches(c, "Number")
    /\ Return(c, <<>>, NumberSchema_validate_inner(Top(c).schema, TopValue(c),
                                                   Top(c).node, errors[c]))

StringValidateInner(c) ==
    /\ Dispatches(c, "String")
    /\ Return(c, <<>>, StringSchema_validate_inner(Top(c).schema, TopValue(c),
                                                   Top(c).node, errors[c]))

\* ReferenceSchema::validate_inner: resolve reaches unimplemented!() on every
\* path, so the call panics and never returns
ReferenceValidateInner(c) ==
    /\ Dispatches(c, "Reference")
    /\ pc' = [pc EXCEPT ![c] = "panicked"]
    /\ UNCHANGED <<schema, doc, ctx, stack, errors, result>>

ArrayFrames_UniqueFirst(self, node) ==
    << [op |-> "validate_unique", schema |-> self, node |-> node,
        i |-> 1, unique_items |-> <<>>],
       [op |-> "validate_size", schema |-> self, node |-> node],
       [op |-> "validate_all_items_schema", schema |-> self, node |-> node],
       [op |-> "validate_item_schema", schema |-> self, node |-> node] >>

\* the calls ArraySchema::validate_inner makes on an array, in order
ArrayFrames(self, node) ==
    << [op |-> "validate_size", schema |-> self, node |-> node],
       [op |-> "validate_all_items_schema", schema |-> self, node |-> node],
       [op |-> "validate_item_schema", schema |-> self, node |-> node],
       [op |-> "validate_unique", schema |-> self, node |-> node,
        i |-> 1, unique_items |-> <<>>] >>

\* ArraySchema::validate_inner
ArrayValidateInner(c) ==
    /\ Dispatches(c, "Array")
    /\ IF TopValue(c).t = "Array"
       THEN Return(c, ArrayFrames(Top(c).schema, Top(c).node), errors[c])
       ELSE Return(c, <<>>, push(errors[c], ValidationError(
                        TypeMismatch("Array", get_type(TopValue(c))), Top(c).node)))

ArrayValidateSize(c) ==
    /\ InFrame(c, "validate_size")
    /\ Return(c, <<>>, validate_size(Top(c).schema, TopValue(c).a, Top(c).node,
                                     errors[c]))

ArrayValidateAllItemsSchema_UnlessTuple(c) ==
    /\ InFrame(c, "validate_all_items_schema")
    /\ Return(c, IF Top(c).schema.item_schemas.some
                 THEN <<>>
                 ELSE validate_all_items_schema(Top(c).schema, TopValue(c).a,
                                                Top(c).node),
              errors[c])

ArrayValidateAllItemsSchema(c) ==
    /\ InFrame(c, "validate_all_items_schema")
    /\ Return(c, validate_all_items_schema(Top(c).schema, TopValue(c).a, Top(c).node),
              errors[c])

ArrayValidateItemSchema(c) ==
    /\ InFrame(c, "validate_item_schema")
    /\ Return(c, validate_item_schema_calls(Top(c).schema, TopValue(c).a, Top(c).node),
              validate_item_schema_push(Top(c).schema, TopValue(c).a, Top(c).node,
                                        errors[c]))

\* ArraySchema::validate_unique: one iteration of the loop over the items
\* (or the return when uniqueItems is off or the items are exhausted)
validate_unique_NoReturn(self, array, f, errs) ==
    IF ~unique_items(self) \/ f.i > Len(array)
    THEN [frames |-> <<>>, errors |-> errs]
    ELSE [frames |-> <<[f EXCEPT !.i = f.i + 1,
                                 !.unique_items = Append(f.unique_items, f.i)]>>,
          errors |-> IF contained_equal(array, f.unique_items, f.i)
                     THEN push(errs, ValidationError(ArrayItemNotUnique, f.node))
                     ELSE errs]

validate_unique(self, array, f, errs) ==
    IF ~unique_items(self) \/ f.i > Len(array)
    THEN [frames |-> <<>>, errors |-> errs]
    ELSE IF contained_equal(array, f.unique_items, f.i)
         THEN [frames |-> <<>>,
               errors |-> push(errs, ValidationError(ArrayItemNotUnique, f.node))]
         ELSE [frames |-> <<[f EXCEPT !.i = f.i + 1,
                                      !.unique_items = Append(f.unique_items, f.i)]>>,
               errors |-> errs]

ArrayValidateUnique(c) ==
    /\ InFrame(c, "validate_unique")
    /\ LET r == validate_unique(Top(c).schema, TopValue(c).a, Top(c), errors[c])
       IN  Return(c, r.frames, r.errors)

ObjectFrames_CountFirst(self, node) ==
    << [op |-> "validate_count", schema |-> self, node |-> node],
       [op |-> "validate_properties", schema |-> self, node |-> node, j |-> 1],
       [op |-> "validate_required", schema |-> self, node |-> node],
       [op |-> "validate_pattern_properties", schema |-> self, node |-> node,
        j |-> 1] >>

\* the calls ObjectSchema::validate_inner makes on an object, in order
ObjectFrames(self, node) ==
    << [op |-> "validate_properties", schema |-> self, node |-> node, j |-> 1],
       [op |-> "validate_required", schema |-> self, node |-> node],
       [op |-> "validate_count", schema |-> self, node |-> node],
       [op |-> "validate_pattern_properties", schema |-> self, node |-> node,
        j |-> 1] >>

ObjectValidateInner_RejectsAdditional(c) ==
    /\ Dispatches(c, "Object")
    /\ IF TopValue(c).t = "Object"
       THEN Return(c, ObjectFrames(Top(c).schema, Top(c).node),
                   IF /\ ~additional_properties(Top(c).schema)
                      /\ \E i \in 1..Len(TopValue(c).o) :
                            ~( /\ Top(c).schema.property_schemas.some
                               /\ get(Top(c).schema.property_schemas.v,
                                      TopValue(c).o[i].k).some )
                   THEN push(errors[c], ValidationError(
                            PropertyCount(0, Len(TopValue(c).o)), Top(c).node))
                   ELSE errors[c])
       ELSE Return(c, <<>>, push(errors[c], ValidationError(
                        TypeMismatch("Object", get_type(TopValue(c))), Top(c).node)))

\* ObjectSchema::validate_inner
ObjectValidateInner(c) ==
    /\ Dispatches(c, "Object")
    /\ IF TopValue(c).t = "Object"
       THEN Return(c, ObjectFrames(Top(c).schema, Top(c).node), errors[c])
       ELSE Return(c, <<>>, push(errors[c], ValidationError(
                        TypeMismatch("Object", get_type(TopValue(c))), Top(c).node)))

ObjectValidateProperties(c) ==
    /\ InFrame(c, "validate_properties")
    /\ LET r == validate_properties(Top(c).schema, TopValue(c).o, Top(c), errors[c])
       IN  Return(c, r.frames, r.errors)

ObjectValidateRequired_UnlessListed(c) ==
    /\ InFrame(c, "validate_required")
    /\ Return(c, <<>>, IF Top(c).schema.property_schemas.some
                       THEN errors[c]
                       ELSE validate_required(Top(c).schema, TopValue(c).o,
                                              Top(c).node, errors[c]))

ObjectValidateRequired(c) ==
    /\ InFrame(c, "validate_required")
    /\ Return(c, <<>>, validate_required(Top(c).schema, TopValue(c).o, Top(c).node,
                                         errors[c]))

ObjectValidateCount(c) ==
    /\ InFrame(c, "validate_count")
    /\ Return(c, <<>>, validate_count(Top(c).schema, TopValue(c).o, Top(c).node,
                                      errors[c]))

ObjectValidatePatternProperties(c) ==
    /\ InFrame(c, "validate_pattern_properties")
    /\ LET r == validate_pattern_properties(Top(c).schema, TopValue(c).o, Top(c),
                                            errors[c])
       IN  Return(c, r.frames, r.errors)

Next ==
    \E c \in Calls :
        \/ ValidateStart(c)
        \/ ValidateReturn(c)
        \/ EmptyValidateInner(c)
        \/ BooleanValidateInner(c)
        \/ IntegerValidateInner(c)
        \/ NumberValidateInner(c)
        \/ StringValidateInner(c)
        \/ ReferenceValidateInner(c)
        \/ ArrayValidateInner(c)
        \/ ArrayValidateSize(c)
        \/ ArrayValidateAllItemsSchema(c)
        \/ ArrayValidateItemSchema(c)
        \/ ArrayValidateUnique(c)
        \/ ObjectValidateInner(c)
        \/ ObjectValidateProperties(c)
        \/ ObjectValidateRequired(c)
        \/ ObjectValidateCount(c)
        \/ ObjectValidatePatternProperties(c)

Spec == Init /\ [][Next]_vars

\* Two validation calls on one schema, each on its own document (the two
\* documents may be equal), their steps interleaved in every order
SharedSchemas ==
    {EmptySchema, BooleanSchema, DanglingReference, PlainInteger, UnitNumber,
     LongString, StringList,
     ArraySchema(Some(2), Some(1), Some(TRUE), Some(PlainInteger),
                 Some(<<LongString, UnitNumber>>), Some(FALSE))}
    \cup
    {ObjectSchema(Some(<<Entry(k[1], PlainInteger), Entry(k[2], StringList)>>),
                  None, Some(<<Kb, Ka>>), Some(2), Some(0),
                  Some(<<Entry("(", PlainInteger), Entry("a", StringList)>>)) :
        k \in {<<Ka, Kb>>, <<Kb, Ka>>}}
SharedDocs ==
    {JNull, JNum(0), JNum(1), JStr(<<"a">>), JArr(<<>>),
     JArr(<<JNum(0), JNum(0)>>),
     JArr(<<JStr(<<"a">>), JNum(1), JArr(<<JNum(0)>>)>>),
     JObj(<<>>), JObj(<<Entry(Ka, JNum(1))>>),
     JObj(<<Entry(Ka, JNum(0)), Entry(Kb, JArr(<<JStr(<<"a">>)>>))>>)}

InitShared ==
    \E s \in SharedSchemas : \E d \in [Calls -> SharedDocs] :
        /\ schema = s
        /\ doc = d
        /\ ctx = [c \in Calls |-> None]
        /\ stack = [c \in Calls |-> <<>>]
        /\ errors = [c \in Calls |-> <<>>]
        /\ result = [c \in Calls |-> Pending]
        /\ pc = [c \in Calls |-> "ready"]

SpecShared == InitShared /\ [][Next]_vars

\* One validation call that is never suspended: the thread that runs it
\* takes every step that is enabled
SpecLive == Init /\ [][Next]_vars /\ WF_vars(Next)

(***************************************************************************)
(* Properties                                                              *)
(***************************************************************************)
IsPrefix(s, t) == Len(s) <= Len(t) /\ SubSeq(t, 1, Len(s)) = s

\* call c has just executed its head frame
Stepped(c) == stack'[c] # stack[c]

\* the errors of a sink that satisfy a test
CountErrors(errs, Test(_)) == Cardinality({k \in 1..Len(errs) : Test(errs[k])})

\* C1: Schema::validate starts from an empty sink with the context root set to
\* the schema it was called on; it returns Ok exactly when the sink is empty
\* after the inner validation and otherwise Err holding the whole sink.
C1_ValidateResult ==
    \A c \in Calls :
        /\ pc[c] = "running" => ctx[c] = Some(Context(schema))
        /\ ( /\ pc[c] = "running"
             /\ stack[c] = <<[op |-> "validate_inner", schema |-> schema,
                              node |-> <<>>]>> )
           => errors[c] = <<>>
        /\ pc[c] = "done" =>
              /\ result[c].tag \in {"Ok", "Err"}
              /\ result[c] = Ok <=> errors[c] = <<>>
              /\ result[c].tag = "Err" =>
                    /\ result[c].errors = errors[c]
                    /\ Len(result[c].errors) >= 1

C1_Witness ==
    /\ pc["A"] = "done"
    /\ result["A"].tag = "Err"
    /\ Len(result["A"].errors) >= 2

\* the concatenation of the sequences f[1], ..., f[n]
RECURSIVE Flatten(_, _)
Flatten(f, n) == IF n = 0 THEN <<>> ELSE Flatten(f, n - 1) \o f[n]

HasDuplicate(array) ==
    \E i, j \in 1..Len(array) : i < j /\ array[i] = array[j]

\* the errors of a depth-first walk of value (at node) against schema s: the
\* checks of a validator in program order, each child walked completely
\* before the next check
RECURSIVE DepthFirst(_, _, _)
DepthFirst(s, value, node) ==
    CASE s.kind = "Empty" -> <<>>
      [] s.kind = "Boolean" -> BooleanSchema_validate_inner(s, value, node, <<>>)
      [] s.kind = "Integer" -> IntegerSchema_validate_inner(s, value, node, <<>>)
      [] s.kind = "Number" -> NumberSchema_validate_inner(s, value, node, <<>>)
      [] s.kind = "String" -> StringSchema_validate_inner(s, value, node, <<>>)
      [] s.kind = "Reference" -> <<>>
      [] s.kind = "Array" ->
            IF value.t # "Array"
            THEN <<ValidationError(TypeMismatch("Array", get_type(value)), node)>>
            ELSE LET n == Len(value.a)
                     m == IF s.item_schemas.some
                          THEN Min(Len(s.item_schemas.v), n) ELSE 0
                 IN  validate_size(s, value.a, node, <<>>)
                     \o (IF s.all_items_schema.some
                         THEN Flatten([i \in 1..n |->
                                  DepthFirst(s.all_items_schema.v, value.a[i],
                                             Append(node, Idx(i)))], n)
                         ELSE <<>>)
                     \o validate_item_schema_push(s, value.a, node, <<>>)
                     \o Flatten([i \in 1..m |->
                            DepthFirst(s.item_schemas.v[i], value.a[i],
                                       Append(node, Idx(i)))], m)
                     \o (IF unique_items(s) /\ HasDuplicate(value.a)
                         THEN <<ValidationError(ArrayItemNotUnique, node)>>
                         ELSE <<>>)
      [] s.kind = "Object" ->
            IF value.t # "Object"
            THEN <<ValidationError(TypeMismatch("Object", get_type(value)), node)>>
            ELSE LET props == IF s.property_schemas.some
                              THEN s.property_schemas.v ELSE <<>>
                     pats == IF s.pattern_properties.some
                             THEN s.pattern_properties.v ELSE <<>>
                     Matching(re) == SelectSeq(value.o, LAMBDA e : is_match(re, e.k))
                 IN  Flatten([j \in 1..Len(props) |->
                         IF get(value.o, props[j].k).some
                         THEN DepthFirst(props[j].v, get(value.o, props[j].k).v,
                                         Append(node, Key(props[j].k)))
                         ELSE IF ~additional_properties(s)
                              THEN <<ValidationError(
                                       MissingProperty(props[j].k), node)>>
                              ELSE <<>>], Len(props))
                     \o validate_required(s, value.o, node, <<>>)
                     \o validate_count(s, value.o, node, <<>>)
                     \o Flatten([j \in 1..Len(pats) |->
                            IF regex_compiles(pats[j].k)
                            THEN Flatten([i \in 1..Len(Matching(pats[j].k)) |->
                                     DepthFirst(pats[j].v,
                                                Matching(pats[j].k)[i].v,
                                                Append(node,
                                                    Key(Matching(pats[j].k)[i].k)))],
                                     Len(Matching(pats[j].k)))
                            ELSE <<ValidationError(
                                     InvalidRegex(regex_error(pats[j].k)), node)>>],
                            Len(pats))

\* C2: during a validation call the sink is append-only (its previous contents
\* are a prefix of its new contents at every step), and the errors come in
\* the depth-first order of the walk: at every step the sink is a prefix of
\* the depth-first error list, and the whole list when the call returns.
C2_AppendOnly ==
    /\ [][\A c \in Calls : IsPrefix(errors[c], errors'[c])]_vars
    /\ [](\A c \in Calls :
            /\ pc[c] = "running"
                  => IsPrefix(errors[c], DepthFirst(schema, doc[c], <<>>))
            /\ pc[c] = "done" => errors[c] = DepthFirst(schema, doc[c], <<>>))

C2_Witness ==
    /\ pc["A"] = "done"
    /\ Len(errors["A"]) >= 3
    /\ \E j, k \in 1..Len(errors["A"]) :
          /\ j < k
          /\ errors["A"][j].node # <<>>
          /\ errors["A"][k].node = <<>>

\* C3: validating any value against the Empty schema pushes no error (at the
\* root and at every nested use of the Empty schema), and Schema::validate on
\* the Empty schema returns Ok.
C3_EmptyAcceptsAll ==
    /\ [](\A c \in Calls :
            schema = EmptySchema =>
                /\ errors[c] = <<>>
                /\ pc[c] = "done" => result[c] = Ok)
    /\ [][\A c \in Calls :
            (Dispatches(c, "Empty") /\ Stepped(c)) =>
                /\ errors'[c] = errors[c]
                /\ stack'[c] = Tail(stack[c])]_vars

C3_Witness ==
    /\ schema = EmptySchema
    /\ pc["A"] = "done"
    /\ result["A"] = Ok
    /\ doc["A"] \in NestedDocs

\* The root schema is a Number schema, the document a number v, the call has
\* returned
NumberDone(c) ==
    /\ pc[c] = "done"
    /\ schema.kind = "Number"
    /\ doc[c].t = "Number"

\* v violates the minimum as the specification defines it
BelowMinimum(s, v) ==
    /\ s.minimum.some
    /\ IF s.exclusive_minimum.some /\ s.exclusive_minimum.v
       THEN v <= s.minimum.v ELSE v < s.minimum.v

\* v violates the maximum as the specification defines it
AboveMaximum(s, v) ==
    /\ s.maximum.some
    /\ IF s.exclusive_maximum.some /\ s.exclusive_maximum.v
       THEN v >= s.maximum.v ELSE v > s.maximum.v

\* C4: with only a minimum set, a number is rejected exactly when v < minimum
\* (exclusiveMinimum false or absent) or v <= minimum (exclusiveMinimum true),
\* so v = minimum passes an inclusive minimum.
C4_MinimumBound ==
    \A c \in Calls :
        (NumberDone(c) /\ schema.minimum.some /\ ~schema.maximum.some) =>
            (errors[c] # <<>> <=> BelowMinimum(schema, doc[c].n))

\* C5: with only a maximum set, a number is rejected exactly when v > maximum
\* (exclusiveMaximum false or absent) or v >= maximum (exclusiveMaximum true),
\* and the error is NumberRange{bound: maximum, value: v}.
C5_MaximumBound ==
    \A c \in Calls :
        (NumberDone(c) /\ schema.maximum.some /\ ~schema.minimum.some) =>
            errors[c] = IF AboveMaximum(schema, doc[c].n)
                        THEN <<ValidationError(
                                 NumberRange(schema.maximum.v, doc[c].n), <<>>)>>
                        ELSE <<>>

\* C6: at most one NumberRange error per value; a value violating both bounds
\* is reported with the maximum as bound, a value violating one bound with
\* that bound.
C6_SingleRangeError ==
    \A c \in Calls :
        NumberDone(c) =>
            LET v == doc[c].n
                below == BelowMinimum(schema, v)
                above == AboveMaximum(schema, v)
            IN  /\ Len(errors[c]) <= 1
                /\ above => errors[c] = <<ValidationError(
                                NumberRange(schema.maximum.v, v), <<>>)>>
                /\ (below /\ ~above) => errors[c] = <<ValidationError(
                                NumberRange(schema.minimum.v, v), <<>>)>>

\* the classification the specification gives: a number is Integer exactly
\* when its fractional part is zero
Classify(v) ==
    CASE v.t = "Null" -> "Null"
      [] v.t = "Bool" -> "Boolean"
      [] v.t = "Array" -> "Array"
      [] v.t = "Object" -> "Object"
      [] v.t = "String" -> "String"
      [] v.t = "Number" -> IF v.n % Den = 0 THEN "Integer" ELSE "Number"

\* C7: the Integer validator pushes exactly TypeMismatch{Integer, classify}
\* when the value is not classified Integer and nothing otherwise, whatever
\* its minimum, maximum, exclusive and multipleOf fields; it makes no call.
C7_IntegerTypeOnly ==
    [][\A c \in Calls :
        (Dispatches(c, "Integer") /\ Stepped(c)) =>
            /\ stack'[c] = Tail(stack[c])
            /\ errors'[c] =
                  IF Classify(TopValue(c)) # "Integer"
                  THEN Append(errors[c],
                           [reason |-> TypeMismatch("Integer", Classify(TopValue(c))),
                            node |-> Top(c).node])
                  ELSE errors[c]]_vars

C7_Witness ==
    /\ pc["A"] = "done"
    /\ schema.kind = "Integer"
    /\ schema.minimum = Some(Den)
    /\ schema.multiple_of.some
    /\ doc["A"] = JNum(0)
    /\ result["A"] = Ok

RECURSIVE SubValues(_)
\* a value and all the values nested in it
SubValues(v) ==
    {v} \cup
    (CASE v.t = "Array" -> UNION {SubValues(v.a[i]) : i \in 1..Len(v.a)}
       [] v.t = "Object" -> UNION {SubValues(v.o[i].v) : i \in 1..Len(v.o)}
       [] OTHER -> {})

\* C8: the classifier returns one JsonType for every value: Null, Boolean,
\* Array, Object and String map to themselves, a number is Integer exactly
\* when its fractional part is zero and Number otherwise; the found type of
\* every TypeMismatch is that classification of its node.
C8_ClassifierTotal ==
    \A c \in Calls :
        /\ \A v \in SubValues(doc[c]) :
              /\ get_type(v) \in JsonType
              /\ get_type(v) = Classify(v)
        /\ \A k \in 1..Len(errors[c]) :
              errors[c][k].reason.kind = "TypeMismatch" =>
                  errors[c][k].reason.TypeMismatch.found
                      = Classify(ValueAt(doc[c], errors[c][k].node))

C8_Witness ==
    /\ pc["A"] = "done"
    /\ doc["A"] = JNum(0)
    /\ errors["A"] = <<ValidationError(TypeMismatch("String", "Integer"), <<>>)>>

\* C9: a String schema with only minLength = a and maxLength = b accepts a
\* string exactly when a <= length <= b (length in bytes, as str::len).
C9_StringLength ==
    \A c \in Calls :
        ( /\ pc[c] = "done"
          /\ schema.kind = "String"
          /\ schema.min_length.some /\ schema.max_length.some
          /\ ~schema.pattern.some /\ ~schema.format.some
          /\ doc[c].t = "String" )
        => ( result[c] = Ok <=>
                /\ schema.min_length.v <= str_len(doc[c].s)
                /\ str_len(doc[c].s) <= schema.max_length.v )

C9_Witness ==
    /\ pc["A"] = "done"
    /\ schema.kind = "String"
    /\ schema.min_length.some /\ schema.max_length.some
    /\ ~schema.pattern.some /\ ~schema.format.some
    /\ doc["A"].t = "String"
    /\ schema.min_length.v <= schema.max_length.v
    /\ str_len(doc["A"].s) > schema.max_length.v
    /\ result["A"].tag = "Err"

IsNotUniqueAtRoot(e) == e.reason.kind = "ArrayItemNotUnique" /\ e.node = <<>>

\* C10: with uniqueItems = true the uniqueness scan visits the items in order
\* and only while no item equals an earlier one; at the first item that does
\* it pushes one ArrayItemNotUnique on the array and stops, so an array with
\* duplicates gets exactly one such error and an array without gets none.
C10_UniqueOnce ==
    /\ [](\A c \in Calls : \A k \in 1..Len(stack[c]) :
            LET f == stack[c][k] IN
            (pc[c] = "running" /\ f.op = "validate_unique") =>
                LET array == ValueAt(doc[c], f.node).a IN
                /\ f.i <= Len(array) + 1
                /\ ~HasDuplicate(SubSeq(array, 1, f.i - 1)))
    /\ [][\A c \in Calls :
            ( /\ InFrame(c, "validate_unique") /\ Stepped(c)
              /\ unique_items(Top(c).schema)
              /\ Top(c).i <= Len(TopValue(c).a) ) =>
                IF \E j \in 1..(Top(c).i - 1) :
                       TopValue(c).a[j] = TopValue(c).a[Top(c).i]
                THEN /\ errors'[c] = Append(errors[c],
                            [reason |-> ArrayItemNotUnique, node |-> Top(c).node])
                     /\ stack'[c] = Tail(stack[c])
                ELSE errors'[c] = errors[c]]_vars
    /\ [](\A c \in Calls :
            ( /\ pc[c] = "done"
              /\ schema.kind = "Array"
              /\ schema.unique_items = Some(TRUE)
              /\ doc[c].t = "Array" ) =>
                CountErrors(errors[c], IsNotUniqueAtRoot)
                    = IF HasDuplicate(doc[c].a) THEN 1 ELSE 0)

C10_Witness ==
    /\ pc["A"] = "done"
    /\ schema.kind = "Array"
    /\ schema.unique_items = Some(TRUE)
    /\ doc["A"].t = "Array"
    /\ Len(doc["A"].a) >= 3
    /\ doc["A"].a[1] = doc["A"].a[2]
    /\ doc["A"].a[2] = doc["A"].a[3]
    /\ CountErrors(errors["A"], IsNotUniqueAtRoot) = 1

\* the root schema is an Array schema in tuple mode only, the document an array
TupleOnly(c) ==
    /\ schema.kind = "Array"
    /\ schema.item_schemas.some
    /\ ~schema.all_items_schema.some
    /\ ~schema.min_items.some /\ ~schema.max_items.some
    /\ schema.unique_items # Some(TRUE)
    /\ doc[c].t = "Array"

\* C11: in tuple mode with N positional schemas, M elements, additionalItems
\* false and N # M, the tuple check pushes exactly one
\* TupleLengthMismatch{schemas: N, tuple: M} on the array and then validates
\* exactly the first min(N, M) elements, element i against schema i, each
\* contributing its own errors after the mismatch, in element order.
C11_TupleLengthMismatch ==
    /\ [][\A c \in Calls :
            LET s == Top(c).schema
                N == Len(s.item_schemas.v)
                M == Len(TopValue(c).a)
                K == IF N < M THEN N ELSE M
            IN  ( /\ InFrame(c, "validate_item_schema") /\ Stepped(c)
                  /\ s.item_schemas.some
                  /\ s.additional_items = Some(FALSE)
                  /\ N # M ) =>
                    /\ errors'[c] = Append(errors[c],
                          [reason |-> TupleLengthMismatch(N, M), node |-> Top(c).node])
                    /\ Len(stack'[c]) = K + Len(stack[c]) - 1
                    /\ \A i \in 1..K :
                          stack'[c][i] = [op |-> "validate_inner",
                                          schema |-> s.item_schemas.v[i],
                                          node |-> Append(Top(c).node, Idx(i))]
                    /\ SubSeq(stack'[c], K + 1, Len(stack'[c])) = Tail(stack[c])]_vars
    /\ [](\A c \in Calls :
            LET N == Len(schema.item_schemas.v)
                M == Len(doc[c].a)
                K == IF N < M THEN N ELSE M
            IN  ( /\ pc[c] = "done" /\ TupleOnly(c)
                  /\ schema.additional_items = Some(FALSE)
                  /\ N # M ) =>
                    errors[c] =
                        <<[reason |-> TupleLengthMismatch(N, M), node |-> <<>>]>>
                        \o Flatten([i \in 1..K |->
                               DepthFirst(schema.item_schemas.v[i], doc[c].a[i],
                                          <<Idx(i)>>)], K))

C11_Witness ==
    /\ pc["A"] = "done" /\ TupleOnly("A")
    /\ schema.additional_items = Some(FALSE)
    /\ Len(schema.item_schemas.v) = 2
    /\ Len(doc["A"].a) = 3
    /\ Len(errors["A"]) = 3
    /\ errors["A"][1] = [reason |-> TupleLengthMismatch(2, 3), node |-> <<>>]
    /\ errors["A"][2].node = <<Idx(1)>>
    /\ errors["A"][3].node = <<Idx(2)>>

\* the root schema is an Array schema in list mode only, the document an array
ListOnly(c) ==
    /\ schema.kind = "Array"
    /\ schema.all_items_schema.some
    /\ ~schema.item_schemas.some
    /\ ~schema.min_items.some /\ ~schema.max_items.some
    /\ schema.unique_items # Some(TRUE)
    /\ doc[c].t = "Array"

RequiredOnly(c) ==
    /\ schema.kind = "Object"
    /\ schema.required.some
    /\ ~schema.property_schemas.some /\ ~schema.pattern_properties.some
    /\ ~schema.min_properties.some /\ ~schema.max_properties.some
    /\ doc[c].t = "Object"

HasKey(object, name) == \E i \in 1..Len(object) : object[i].k = name

\* C13: an Object schema that sets only `required` pushes exactly one
\* MissingProperty(name) on the object for each entry of the required list
\* that the object lacks, in the order of the list, and nothing for the names
\* that are present or for the keys that are not listed.
C13_RequiredMissing ==
    \A c \in Calls :
        (pc[c] = "done" /\ RequiredOnly(c)) =>
            LET absent == SelectSeq(schema.required.v,
                                    LAMBDA name : ~HasKey(doc[c].o, name))
            IN  errors[c] = [k \in 1..Len(absent) |->
                                [reason |-> MissingProperty(absent[k]), node |-> <<>>]]

C13_Witness ==
    /\ pc["A"] = "done" /\ RequiredOnly("A")
    /\ schema.required.v = <<Ka, Kb>>
    /\ doc["A"] = JObj(<<Entry(Ka, JNum(1))>>)
    /\ errors["A"] = <<[reason |-> MissingProperty(Kb), node |-> <<>>]>>

\* the root schema is an Object schema that sets only `properties` (and
\* possibly additionalProperties), the document an object
PropertiesOnly(c) ==
    /\ schema.kind = "Object"
    /\ schema.property_schemas.some
    /\ ~schema.required.some /\ ~schema.pattern_properties.some
    /\ ~schema.min_properties.some /\ ~schema.max_properties.some
    /\ doc[c].t = "Object"

\* additionalProperties as the validator reads it: an absent field is false
AdditionalPropertiesOf(s) ==
    IF s.additional_properties.some THEN s.additional_properties.v ELSE FALSE

IsMissingProperty(e) == e.reason.kind = "MissingProperty"

\* C14: the named-properties check takes the (name, schema) pairs of
\* `properties` one by one: when the object has the key, its value is
\* validated against schema and nothing is pushed by the check itself; when
\* the key is absent, MissingProperty(name) is pushed on the object if
\* additionalProperties is false and nothing is pushed if it is true.
C14_NamedProperties ==
    /\ [][\A c \in Calls :
            LET f == Top(c)
                s == f.schema
                name == s.property_schemas.v[f.j].k
                next == [f EXCEPT !.j = f.j + 1]
            IN  ( /\ InFrame(c, "validate_properties") /\ Stepped(c)
                  /\ s.property_schemas.some
                  /\ f.j <= Len(s.property_schemas.v) ) =>
                    IF HasKey(TopValue(c).o, name)
                    THEN /\ errors'[c] = errors[c]
                         /\ stack'[c] =
                               <<[op |-> "validate_inner",
                                  schema |-> s.property_schemas.v[f.j].v,
                                  node |-> Append(f.node, Key(name))], next>>
                               \o Tail(stack[c])
                    ELSE /\ stack'[c] = <<next>> \o Tail(stack[c])
                         /\ errors'[c] =
                               IF AdditionalPropertiesOf(s)
                               THEN errors[c]
                               ELSE Append(errors[c],
                                        [reason |-> MissingProperty(name),
                                         node |-> f.node])]_vars
    /\ [](\A c \in Calls :
            (pc[c] = "done" /\ PropertiesOnly(c)) =>
                LET props == schema.property_schemas.v IN
                errors[c] = Flatten([j \in 1..Len(props) |->
                    IF HasKey(doc[c].o, props[j].k)
                    THEN DepthFirst(props[j].v, get(doc[c].o, props[j].k).v,
                                    <<Key(props[j].k)>>)
                    ELSE IF AdditionalPropertiesOf(schema)
                         THEN <<>>
                         ELSE <<[reason |-> MissingProperty(props[j].k),
                                 node |-> <<>>]>>], Len(props)))

C14_Witness ==
    /\ pc["A"] = "done" /\ PropertiesOnly("A")
    /\ schema.additional_properties = Some(FALSE)
    /\ Len(schema.property_schemas.v) = 2
    /\ Len(doc["A"].o) = 1
    /\ Len(errors["A"]) = 2
    /\ CountErrors(errors["A"], IsMissingProperty) = 1
    /\ \E k \in 1..2 : errors["A"][k].node # <<>>

\* name is a key that the Object schema s lists in `properties` or matches
\* with one of its compilable patterns
ListedKey(s, name) ==
    \/ /\ s.property_schemas.some
       /\ \E j \in 1..Len(s.property_schemas.v) : s.property_schemas.v[j].k = name
    \/ /\ s.pattern_properties.some
       /\ \E j \in 1..Len(s.pattern_properties.v) :
             /\ regex_compiles(s.pattern_properties.v[j].k)
             /\ is_match(s.pattern_properties.v[j].k, name)

\* C15: an Object schema with additionalProperties = false pushes no error for
\* an object key that is neither in `properties` nor matched by a pattern:
\* every error is either on the object itself (a missing name, the property
\* count, an uncompilable pattern) or inside the value of a listed key, and an
\* object that has all the required names plus unlisted keys validates Ok.
C15_AdditionalIgnored ==
    \A c \in Calls :
        ( /\ schema.kind = "Object"
          /\ schema.additional_properties = Some(FALSE)
          /\ doc[c].t = "Object" ) =>
            /\ \A k \in 1..Len(errors[c]) :
                  LET e == errors[c][k] IN
                  IF e.node = <<>>
                  THEN /\ e.reason.kind \in {"MissingProperty", "PropertyCount",
                                             "InvalidRegex"}
                       /\ e.reason.kind = "MissingProperty" =>
                             ~HasKey(doc[c].o, e.reason.MissingProperty)
                  ELSE \E name \in {doc[c].o[i].k : i \in 1..Len(doc[c].o)} :
                          e.node[1] = Key(name) /\ ListedKey(schema, name)
            /\ ( /\ pc[c] = "done"
                 /\ RequiredOnly(c)
                 /\ \A j \in 1..Len(schema.required.v) :
                       HasKey(doc[c].o, schema.required.v[j]) )
               => result[c] = Ok

C15_Witness ==
    /\ pc["A"] = "done" /\ RequiredOnly("A")
    /\ schema.additional_properties = Some(FALSE)
    /\ schema.required.v = <<Ka>>
    /\ HasKey(doc["A"].o, Ka) /\ HasKey(doc["A"].o, Kb)
    /\ result["A"] = Ok

\* the schema node of root that a reference of the explored schemas points
\* to, by the pointer lookup of the specification: None when the reference
\* does not begin with '#' or the path does not exist in root
PointerTarget(root, reference) ==
    IF /\ reference = "#/itemSchemas/0"
       /\ root.kind = "Array"
       /\ root.item_schemas.some
       /\ Len(root.item_schemas.v) >= 1
    THEN Some(root.item_schemas.v[1])
    ELSE None

\* call c has reached a Reference schema
AtReference(c) == stack[c] # <<>> /\ Top(c).schema.kind = "Reference"

\* C16: validating a value against a Reference schema whose pointer does not
\* resolve (the path is not in the root schema, or the reference does not
\* begin with '#') fails closed: the call ends with Err, never with Ok.
C16_FailsClosed ==
    \A c \in Calls :
        ( /\ AtReference(c)
          /\ ~PointerTarget(schema, Top(c).schema.reference).some ) =>
            /\ result[c] # Ok
            /\ pc[c] # "panicked"

\* the root schema with its reference replaced by the schema it points to
Dereferenced(root) ==
    [root EXCEPT !.item_schemas =
        Some([i \in 1..Len(root.item_schemas.v) |->
                 IF root.item_schemas.v[i].kind = "Reference"
                 THEN PointerTarget(root, root.item_schemas.v[i].reference).v
                 ELSE root.item_schemas.v[i]])]

\* C17: a Reference schema whose '#'-pointer resolves to a node S of the root
\* schema delegates to S: the call goes on with the same context root, and the
\* errors of the whole call are those of the root schema with S in the place
\* of the reference.
C17_ReferenceDelegates ==
    \A c \in Calls :
        schema \in ReferringTuples =>
            /\ pc[c] # "panicked"
            /\ pc[c] = "running" => ctx[c] = Some(Context(schema))
            /\ pc[c] = "done" =>
                  errors[c] = DepthFirst(Dereferenced(schema), doc[c], <<>>)

\* the schema that the builder produces when its additionalItems /
\* additionalProperties and uniqueItems setters are not called, all the other
\* fields being those of the deserialized schema s
BuiltWithDefaults(s) ==
    CASE s.kind = "Array" ->
            ArraySchemaBuilder_build(
                [ArraySchemaBuilder_default EXCEPT
                    !.min_items = s.min_items, !.max_items = s.max_items,
                    !.all_items_schema = s.all_items_schema,
                    !.item_schemas = s.item_schemas])
      [] s.kind = "Object" ->
            ObjectSchemaBuilder_build(
                [ObjectSchemaBuilder_default EXCEPT
                    !.property_schemas = s.property_schemas,
                    !.required = s.required,
                    !.min_properties = s.min_properties,
                    !.max_properties = s.max_properties,
                    !.pattern_properties = s.pattern_properties])

\* s is a deserialized Array or Object schema whose additionalItems /
\* additionalProperties (and uniqueItems) fields are absent
DefaultsAbsent(s) ==
    \/ /\ s.kind = "Array"
       /\ ~s.additional_items.some /\ ~s.unique_items.some
    \/ /\ s.kind = "Object"
       /\ ~s.additional_properties.some

\* C18: a schema built with a builder left at its defaults gives, on every
\* document, the validation result of the same schema deserialized with those
\* fields absent.
C18_BuilderDefaults ==
    \A c \in Calls :
        (pc[c] = "done" /\ DefaultsAbsent(schema)) =>
            result[c] = validate_start_result(
                            DepthFirst(BuiltWithDefaults(schema), doc[c], <<>>))

Private(c) == <<pc[c], ctx[c], stack[c], errors[c], result[c]>>

\* C20: when two calls on the same schema and different documents run
\* concurrently, every step changes the state of one call only and leaves the
\* schema and both documents as they are, and under every interleaving each
\* call returns the result it returns when run alone.
C20_Concurrent ==
    /\ [][ /\ schema' = schema
           /\ doc' = doc
           /\ \A c, d \in Calls :
                 (c # d /\ Private(c)' # Private(c)) => Private(d)' = Private(d)
         ]_vars
    /\ [](\A c \in Calls :
            /\ pc[c] = "running"
                  => IsPrefix(errors[c], DepthFirst(schema, doc[c], <<>>))
            /\ pc[c] = "done"
                  => result[c] = validate_start_result(
                                     DepthFirst(schema, doc[c], <<>>)))

C20_Witness ==
    /\ doc["A"] # doc["B"]
    /\ pc["A"] = "running" /\ pc["B"] = "running"
    /\ stack["A"] # <<>> /\ stack["B"] # <<>>
    /\ Len(errors["A"]) >= 2 /\ Len(errors["B"]) >= 2
    /\ errors["A"] # errors["B"]

\* C21: every call of Schema::validate eventually returns Ok or Err.
C21_Terminates ==
    \A c \in Calls :
        (pc[c] = "ready") ~> (pc[c] = "done" /\ result[c].tag \in {"Ok", "Err"})

\* the root schema is a String schema that sets only maxLength, and the
\* document is a string longer than maxLength; the call has returned
TooLong(c) ==
    /\ pc[c] = "done"
    /\ schema.kind = "String"
    /\ schema.max_length.some /\ ~schema.min_length.some
    /\ ~schema.pattern.some /\ ~schema.format.some
    /\ doc[c].t = "String"
    /\ str_len(doc[c].s) > schema.max_length.v

\* C22 as stated: a string longer than maxLength gets an error tagged
\* MinLength whose expected and found fields are swapped relative to a
\* minLength violation (expected holds the length, found the bound).
C22_MaxLengthSwapped ==
    \A c \in Calls :
        TooLong(c) =>
            errors[c] = <<[reason |-> [kind |-> "MinLength",
                                       MinLength |-> [expected |-> str_len(doc[c].s),
                                                      found |-> schema.max_length.v]],
                           node |-> <<>>]>>

\* C22 amended: a string longer than maxLength gets exactly one error, tagged
\* MinLength (not MaxLength), with expected = maxLength and found = the length
\* of the string: the fields keep the roles they have in a minLength
\* violation.
C22_MaxLengthTag ==
    \A c \in Calls :
        TooLong(c) =>
            errors[c] = <<[reason |-> [kind |-> "MinLength",
                                       MinLength |-> [expected |-> schema.max_length.v,
                                                      found |-> str_len(doc[c].s)]],
                           node |-> <<>>]>>

C22_Witness ==
    /\ TooLong("A")
    /\ schema.max_length.v = 1
    /\ str_len(doc["A"].s) = 3
    /\ errors["A"][1].reason.kind = "MinLength"

\* the errors the four checks of the String validator give on string s, each
\* check judged on its own, in the order format, minLength, maxLength, pattern
StringChecks(sch, s) ==
    << IF sch.format.some /\ ~is_valid(sch.format.v, s)
       THEN <<[kind |-> "InvalidFormat", InvalidFormat |-> sch.format.v]>>
       ELSE <<>>,
       IF sch.min_length.some /\ str_len(s) < sch.min_length.v
       THEN <<[kind |-> "MinLength",
               MinLength |-> [expected |-> sch.min_length.v, found |-> str_len(s)]]>>
       ELSE <<>>,
       IF sch.max_length.some /\ str_len(s) > sch.max_length.v
       THEN <<[kind |-> "MinLength",
               MinLength |-> [expected |-> sch.max_length.v, found |-> str_len(s)]]>>
       ELSE <<>>,
       IF sch.pattern.some
       THEN IF ~regex_compiles(sch.pattern.v)
            THEN <<[kind |-> "InvalidRegex", InvalidRegex |-> sch.pattern.v]>>
            ELSE IF ~is_match(sch.pattern.v, s)
                 THEN <<[kind |-> "RegexMismatch", RegexMismatch |-> sch.pattern.v]>>
                 ELSE <<>>
       ELSE <<>> >>

\* C23: on a string the String validator runs the format, minLength,
\* maxLength and pattern checks all, in that order, none suppressed by an
\* earlier failure: the errors are those of the violated checks in that order
\* (0 to 4 of them), all on the string; an uncompilable pattern gives one
\* InvalidRegex and no RegexMismatch, a compilable one RegexMismatch exactly
\* when the string does not match.
C23_StringChecksAll ==
    [][\A c \in Calls :
        (Dispatches(c, "String") /\ Stepped(c) /\ TopValue(c).t = "String") =>
            LET checks == StringChecks(Top(c).schema, TopValue(c).s)
                reasons == checks[1] \o checks[2] \o checks[3] \o checks[4]
            IN  /\ stack'[c] = Tail(stack[c])
                /\ errors'[c] = errors[c] \o
                      [k \in 1..Len(reasons) |->
                          [reason |-> reasons[k], node |-> Top(c).node]]
                /\ Len(errors'[c]) - Len(errors[c]) =
                      Cardinality({k \in 1..4 : checks[k] # <<>>})]_vars

C23_Witness ==
    /\ pc["A"] = "done"
    /\ schema.kind = "String"
    /\ doc["A"].t = "String"
    /\ Len(errors["A"]) = 4
    /\ errors["A"][1].reason.kind = "InvalidFormat"
    /\ errors["A"][4].reason.kind = "InvalidRegex"

\* the MissingProperty(name) errors on the root object in a sink
MissingAtRoot(errs, name) ==
    Cardinality({k \in 1..Len(errs) :
        errs[k] = [reason |-> MissingProperty(name), node |-> <<>>]})

\* the entries of a list equal to name
Occurrences(list, name) == Cardinality({k \in 1..Len(list) : list[k] = name})

\* C24: the `required` check is independent of the named-properties check:
\* a name absent from the object gets one MissingProperty from the required
\* check for each time `required` lists it, and one more from the
\* named-properties check when `properties` lists it and additionalProperties
\* is false; so a name in both gets two errors when additionalProperties is
\* false and exactly one when it is true.
C24_RequiredIndependent ==
    \A c \in Calls :
        (pc[c] = "done" /\ schema.kind = "Object" /\ doc[c].t = "Object") =>
            \A name \in {Ka, Kb} :
                ~HasKey(doc[c].o, name) =>
                    MissingAtRoot(errors[c], name) =
                        (IF schema.required.some
                         THEN Occurrences(schema.required.v, name) ELSE 0)
                        + (IF /\ schema.property_schemas.some
                              /\ \E j \in 1..Len(schema.property_schemas.v) :
                                    schema.property_schemas.v[j].k = name
                              /\ ~AdditionalPropertiesOf(schema)
                           THEN 1 ELSE 0)

C24_Witness ==
    /\ pc["A"] = "done"
    /\ schema.kind = "Object"
    /\ schema.additional_properties = Some(FALSE)
    /\ schema.required = Some(<<Ka>>)
    /\ schema.property_schemas.some
    /\ \E j \in 1..Len(schema.property_schemas.v) : schema.property_schemas.v[j].k = Ka
    /\ doc["A"].t = "Object"
    /\ ~HasKey(doc["A"].o, Ka)
    /\ MissingAtRoot(errors["A"], Ka) = 2

IsAtRoot(e, kind) == e.node = <<>> /\ e.reason.kind = kind

\* C25: on an object the Object validator runs its four checks in the order
\* named properties, required, property count, pattern properties, whatever
\* the earlier checks pushed; the count check pushes
\* PropertyCount{bound: minProperties, found} when the key count is below
\* minProperties and PropertyCount{bound: maxProperties, found} when it is
\* above maxProperties; the errors of the four checks are in the sink in that
\* order.
C25_ObjectCheckOrder ==
    /\ [][\A c \in Calls :
            ( /\ Dispatches(c, "Object") /\ Stepped(c)
              /\ TopValue(c).t = "Object" ) =>
                /\ errors'[c] = errors[c]
                /\ Len(stack'[c]) = Len(stack[c]) + 3
                /\ \A k \in 1..4 :
                      /\ stack'[c][k].op =
                            <<"validate_properties", "validate_required",
                              "validate_count", "validate_pattern_properties">>[k]
                      /\ stack'[c][k].schema = Top(c).schema
                      /\ stack'[c][k].node = Top(c).node
                /\ SubSeq(stack'[c], 5, Len(stack'[c])) = Tail(stack[c])]_vars
    /\ [][\A c \in Calls :
            (InFrame(c, "validate_count") /\ Stepped(c)) =>
                LET s == Top(c).schema
                    n == Len(TopValue(c).o)
                    Count(bound) == [reason |-> [kind |-> "PropertyCount",
                                         PropertyCount |-> [bound |-> bound,
                                                            found |-> n]],
                                     node |-> Top(c).node]
                IN  /\ stack'[c] = Tail(stack[c])
                    /\ errors'[c] = errors[c]
                          \o (IF s.min_properties.some /\ n < s.min_properties.v
                              THEN <<Count(s.min_properties.v)>> ELSE <<>>)
                          \o (IF s.max_properties.some /\ n > s.max_properties.v
                              THEN <<Count(s.max_properties.v)>> ELSE <<>>)]_vars
    /\ [](\A c \in Calls :
            ( /\ pc[c] = "done" /\ schema.kind = "Object"
              /\ doc[c].t = "Object" ) =>
                /\ errors[c] = DepthFirst(schema, doc[c], <<>>)
                /\ \A j, k \in 1..Len(errors[c]) :
                      /\ ( /\ IsAtRoot(errors[c][j], "MissingProperty")
                           /\ IsAtRoot(errors[c][k], "PropertyCount") ) => j < k
                      /\ ( /\ IsAtRoot(errors[c][j], "PropertyCount")
                           /\ IsAtRoot(errors[c][k], "InvalidRegex") ) => j < k)

C25_Witness ==
    /\ pc["A"] = "done"
    /\ schema.kind = "Object" /\ doc["A"].t = "Object"
    /\ CountErrors(errors["A"], LAMBDA e : IsAtRoot(e, "MissingProperty")) = 2
    /\ CountErrors(errors["A"], LAMBDA e : IsAtRoot(e, "PropertyCount")) = 2
    /\ CountErrors(errors["A"], LAMBDA e : IsAtRoot(e, "InvalidRegex")) = 1
    /\ errors["A"][Len(errors["A"])].node # <<>>

\* C26: the pattern-properties check takes the (patternText, schema) pairs
\* one by one.  A pattern that does not compile pushes exactly one
\* InvalidRegex on the object, validates no value, and the check goes on with
\* the next pattern.  A pattern that compiles pushes nothing itself and
\* validates, in the order of the object, exactly the values whose key
\* matches; when no key matches nothing is validated and nothing is pushed.
C26_PatternProperties ==
    [][\A c \in Calls :
        LET f == Top(c)
            s == f.schema
            object == TopValue(c).o
            pattern == s.pattern_properties.v[f.j].k
            next == [f EXCEPT !.j = f.j + 1]
            keys == SelectSeq([i \in 1..Len(object) |-> object[i].k],
                              LAMBDA key : is_match(pattern, key))
        IN  ( /\ InFrame(c, "validate_pattern_properties") /\ Stepped(c)
              /\ s.pattern_properties.some
              /\ f.j <= Len(s.pattern_properties.v) ) =>
                IF ~regex_compiles(pattern)
                THEN /\ Len(errors'[c]) = Len(errors[c]) + 1
                     /\ SubSeq(errors'[c], 1, Len(errors[c])) = errors[c]
                     /\ errors'[c][Len(errors'[c])].reason.kind = "InvalidRegex"
                     /\ errors'[c][Len(errors'[c])].node = f.node
                     /\ stack'[c] = <<next>> \o Tail(stack[c])
                ELSE /\ errors'[c] = errors[c]
                     /\ stack'[c] =
                           [i \in 1..Len(keys) |->
                               [op |-> "validate_inner",
                                schema |-> s.pattern_properties.v[f.j].v,
                                node |-> Append(f.node, Key(keys[i]))]]
                           \o <<next>> \o Tail(stack[c])]_vars

C26_Witness ==
    /\ pc["A"] = "done"
    /\ schema.kind = "Object"
    /\ schema.pattern_properties.some
    /\ ~schema.property_schemas.some
    /\ Len(schema.pattern_properties.v) = 2
    /\ schema.pattern_properties.v[1].k = "("
    /\ schema.pattern_properties.v[2].k = "a"
    /\ doc["A"].t = "Object"
    /\ HasKey(doc["A"].o, Ka) /\ HasKey(doc["A"].o, Kb)
    /\ Len(errors["A"]) = 2
    /\ errors["A"][1].reason.kind = "InvalidRegex" /\ errors["A"][1].node = <<>>
    /\ errors["A"][2].node = <<Key(Ka)>>

\* C27: on an array the Array validator runs the size, list-items,
\* tuple-items and uniqueness checks in that order, whatever the earlier ones
\* pushed; the size check pushes MinLength{expected: minItems, found: len}
\* when len < minItems and MaxLength{expected: maxItems, found: len} when
\* len > maxItems, each on its own, so both when minItems > len > maxItems.
C27_ArrayCheckOrder ==
    /\ [][\A c \in Calls :
            ( /\ Dispatches(c, "Array") /\ Stepped(c)
              /\ TopValue(c).t = "Array" ) =>
                /\ errors'[c] = errors[c]
                /\ Len(stack'[c]) = Len(stack[c]) + 3
                /\ \A k \in 1..4 :
                      /\ stack'[c][k].op =
                            <<"validate_size", "validate_all_items_schema",
                              "validate_item_schema", "validate_unique">>[k]
                      /\ stack'[c][k].schema = Top(c).schema
                      /\ stack'[c][k].node = Top(c).node
                /\ SubSeq(stack'[c], 5, Len(stack'[c])) = Tail(stack[c])]_vars
    /\ [][\A c \in Calls :
            (InFrame(c, "validate_size") /\ Stepped(c)) =>
                LET s == Top(c).schema
                    n == Len(TopValue(c).a)
                IN  /\ stack'[c] = Tail(stack[c])
                    /\ errors'[c] = errors[c]
                          \o (IF s.min_items.some /\ n < s.min_items.v
                              THEN <<[reason |-> [kind |-> "MinLength",
                                          MinLength |-> [expected |-> s.min_items.v,
                                                         found |-> n]],
                                      node |-> Top(c).node]>>
                              ELSE <<>>)
                          \o (IF s.max_items.some /\ n > s.max_items.v
                              THEN <<[reason |-> [kind |-> "MaxLength",
                                          MaxLength |-> [expected |-> s.max_items.v,
                                                         found |-> n]],
                                      node |-> Top(c).node]>>
                              ELSE <<>>)]_vars
    /\ [](\A c \in Calls :
            ( /\ pc[c] = "done" /\ schema.kind = "Array"
              /\ doc[c].t = "Array" ) =>
                /\ errors[c] = DepthFirst(schema, doc[c], <<>>)
                /\ \A j, k \in 1..Len(errors[c]) :
                      /\ ( /\ IsAtRoot(errors[c][j], "MaxLength")
                           /\ errors[c][k].node # <<>> ) => j < k
                      /\ ( /\ IsAtRoot(errors[c][j], "MinLength")
                           /\ IsAtRoot(errors[c][k], "MaxLength") ) => j < k
                      /\ ( /\ IsAtRoot(errors[c][j], "MaxLength")
                           /\ IsAtRoot(errors[c][k], "TupleLengthMismatch") ) => j < k
                      /\ ( /\ ~IsAtRoot(errors[c][j], "ArrayItemNotUnique")
                           /\ IsAtRoot(errors[c][k], "ArrayItemNotUnique") ) => j < k)

C27_Witness ==
    /\ pc["A"] = "done"
    /\ schema.kind = "Array" /\ doc["A"].t = "Array"
    /\ schema.min_items.some /\ schema.max_items.some
    /\ schema.min_items.v > Len(doc["A"].a)
    /\ Len(doc["A"].a) > schema.max_items.v
    /\ Len(errors["A"]) >= 5
    /\ IsAtRoot(errors["A"][1], "MinLength")
    /\ IsAtRoot(errors["A"][2], "MaxLength")
    /\ errors["A"][3].node # <<>>
    /\ IsAtRoot(errors["A"][Len(errors["A"])], "ArrayItemNotUnique")

\* C28: in tuple mode with additionalItems = true the tuple check never pushes
\* TupleLengthMismatch, whatever the length of the array: it pushes nothing
\* itself and validates element i against schema i for i up to min(N, M)
\* only, so the elements beyond the schemas are not validated against any
\* positional schema and the schemas beyond the array are applied to nothing.
C28_AdditionalItemsAllowed ==
    /\ [][\A c \in Calls :
            LET s == Top(c).schema
                N == Len(s.item_schemas.v)
                M == Len(TopValue(c).a)
                K == IF N < M THEN N ELSE M
            IN  ( /\ InFrame(c, "validate_item_schema") /\ Stepped(c)
                  /\ s.item_schemas.some
                  /\ s.additional_items = Some(TRUE) ) =>
                    /\ errors'[c] = errors[c]
                    /\ Len(stack'[c]) = K + Len(stack[c]) - 1
                    /\ \A i \in 1..K :
                          stack'[c][i] = [op |-> "validate_inner",
                                          schema |-> s.item_schemas.v[i],
                                          node |-> Append(Top(c).node, Idx(i))]
                    /\ SubSeq(stack'[c], K + 1, Len(stack'[c])) = Tail(stack[c])]_vars
    /\ [](\A c \in Calls :
            ( /\ schema.kind = "Array" /\ schema.item_schemas.some
              /\ schema.additional_items = Some(TRUE)
              /\ doc[c].t = "Array" ) =>
                /\ \A k \in 1..Len(errors[c]) :
                      ~IsAtRoot(errors[c][k], "TupleLengthMismatch")
                /\ (TupleOnly(c) /\ pc[c] = "done") =>
                      \A k \in 1..Len(errors[c]) :
                          /\ errors[c][k].node # <<>>
                          /\ errors[c][k].node[1].i <= Len(schema.item_schemas.v)
                          /\ errors[c][k].node[1].i <= Len(doc[c].a))

C28_Witness ==
    /\ pc["A"] = "done" /\ TupleOnly("A")
    /\ schema.additional_items = Some(TRUE)
    /\ Len(schema.item_schemas.v) = 1
    /\ Len(doc["A"].a) = 3
    /\ schema.item_schemas.v[1] = PlainInteger
    /\ doc["A"].a[2] = JStr(<<"a">>)
    /\ result["A"] = Ok

\* the tag of the JSON values a schema kind accepts, and the JsonType the kind
\* expects
AcceptedTag(kind) ==
    CASE kind = "Boolean" -> "Bool"
      [] kind = "Number" -> "Number"
      [] kind = "String" -> "String"
      [] kind = "Array" -> "Array"
      [] kind = "Object" -> "Object"

\* C29: when the JSON type of the value does not match the schema kind (a
\* non-boolean for Boolean, a non-number for Number, a non-string for String,
\* a non-array for Array, a non-object for Object) the validator pushes
\* exactly one error, TypeMismatch{expected: the type of the kind, found:
\* classify(value)} on the value, and returns: none of the other checks of the
\* kind runs and no child is validated.
C29_TypeMismatch ==
    [][\A c \in Calls :
        \A kind \in {"Boolean", "Number", "String", "Array", "Object"} :
            ( /\ Dispatches(c, kind) /\ Stepped(c)
              /\ TopValue(c).t # AcceptedTag(kind) ) =>
                /\ errors'[c] = Append(errors[c],
                      [reason |-> [kind |-> "TypeMismatch",
                                   TypeMismatch |-> [expected |-> kind,
                                                     found |-> Classify(TopValue(c))]],
                       node |-> Top(c).node])
                /\ stack'[c] = Tail(stack[c])]_vars

C29_Witness ==
    /\ pc["A"] = "done"
    /\ schema.kind = "String"
    /\ schema.min_length.some /\ schema.pattern.some /\ schema.format.some
    /\ doc["A"] = JNum(1)
    /\ errors["A"] = <<[reason |-> [kind |-> "TypeMismatch",
                                    TypeMismatch |-> [expected |-> "String",
                                                      found |-> "Number"]],
                        node |-> <<>>]>>

\* the root schema is an Array schema with both a list schema and positional
\* schemas and no other constraint, the document an array
ListAndTuple(c) ==
    /\ schema.kind = "Array"
    /\ schema.all_items_schema.some /\ schema.item_schemas.some
    /\ ~schema.min_items.some /\ ~schema.max_items.some
    /\ schema.unique_items # Some(TRUE)
    /\ doc[c].t = "Array"

\* C30: an Array schema can hold a list schema and positional schemas at
\* once; then every element is validated against the list schema first, and
\* afterwards the first min(N, M) elements are validated again, each against
\* its positional schema: all the list-mode errors come before all the
\* tuple-mode errors, and an element failing both gives two errors.
C30_ListThenTuple ==
    \A c \in Calls :
        (pc[c] = "done" /\ ListAndTuple(c)) =>
            LET N == Len(schema.item_schemas.v)
                M == Len(doc[c].a)
                K == IF N < M THEN N ELSE M
                list == Flatten([i \in 1..M |->
                            DepthFirst(schema.all_items_schema.v, doc[c].a[i],
                                       <<Idx(i)>>)], M)
                tuple == Flatten([i \in 1..K |->
                             DepthFirst(schema.item_schemas.v[i], doc[c].a[i],
                                        <<Idx(i)>>)], K)
                rest == SubSeq(errors[c], Len(list) + 1, Len(errors[c]))
            IN  /\ IsPrefix(list, errors[c])
                /\ rest = tuple
                   \/ /\ rest # <<>>
                      /\ IsAtRoot(rest[1], "TupleLengthMismatch")
                      /\ Tail(rest) = tuple

C30_Witness ==
    /\ pc["A"] = "done" /\ ListAndTuple("A")
    /\ Len(doc["A"].a) = 3
    /\ Len(schema.item_schemas.v) = 2
    /\ schema.additional_items = Some(TRUE)
    /\ Len(errors["A"]) = 4
    /\ errors["A"][1].node = <<Idx(1)>>
    /\ errors["A"][2].node = <<Idx(3)>>
    /\ errors["A"][3].node = <<Idx(1)>>
    /\ errors["A"][4].node = <<Idx(2)>>

====
